---- MODULE Spec2Model ----
(***************************************************************************)
(* Version resolution of packages/semver: tryBump and its helpers          *)
(* (executors/version/utils/try-bump.ts), as a state machine over the       *)
(* collaborator calls it issues and the answers it receives.                *)
(***************************************************************************)
EXTENDS Integers, Sequences, FiniteSets, Bags, TLC

(***************************************************************************)
(* Bounds of the model.                                                     *)
(***************************************************************************)
\* largest number of dependency roots handed to tryBump
MaxDeps == 2
\* largest major, minor or patch number of a version handed to _semverBump alone
MaxNum == 1
MaxSkip == 2

(***************************************************************************)
(* Values.  A version string is modelled by what semver.parse makes of it:  *)
(* a record of its numbers and prerelease identifiers, or Malformed for a   *)
(* string semver.parse rejects.  Null is JavaScript's null, Undefined an    *)
(* absent argument.                                                         *)
(***************************************************************************)
Null == [kind |-> "null"]
Undefined == "undefined"
Malformed == [kind |-> "malformed"]
Num(n) == [isNum |-> TRUE, n |-> n, s |-> ""]
Str(s) == [isNum |-> FALSE, n |-> 0, s |-> s]
SemVer(M, m, p, pre) ==
  [kind |-> "semver", major |-> M, minor |-> m, patch |-> p, prerelease |-> pre]

initialVersion == SemVer(0, 0, 0, <<>>)

\* an optional value: <<>> while absent, <<x>> once present
Some(x) == <<x>>

SetMax(S) == CHOOSE x \in S : \A y \in S : y <= x

(***************************************************************************)
(* The semver library (node-semver), as far as tryBump uses it.             *)
(***************************************************************************)
\* JavaScript's < on the identifier strings of the model (code-unit order)
StrRank(s) ==
  CASE s = "alpha" -> 1
    [] s = "beta" -> 2
    [] s = "rc" -> 3
    [] s = "x" -> 4
    [] OTHER -> 0

semver_parse(version) == IF version.kind = "semver" THEN version ELSE Null

compareIdentifiers(a, b) ==
  IF a.isNum /\ b.isNum
    THEN (IF a.n = b.n THEN 0 ELSE IF a.n < b.n THEN -1 ELSE 1)
    ELSE IF a = b THEN 0
    ELSE IF a.isNum /\ ~b.isNum THEN -1
    ELSE IF b.isNum /\ ~a.isNum THEN 1
    ELSE IF StrRank(a.s) < StrRank(b.s) THEN -1 ELSE 1

compareMain(a, b) ==
  IF a.major # b.major THEN (IF a.major < b.major THEN -1 ELSE 1)
  ELSE IF a.minor # b.minor THEN (IF a.minor < b.minor THEN -1 ELSE 1)
  ELSE IF a.patch # b.patch THEN (IF a.patch < b.patch THEN -1 ELSE 1)
  ELSE 0

RECURSIVE comparePreFrom(_, _, _)
comparePreFrom(p, q, i) ==
  IF i > Len(p) /\ i > Len(q) THEN 0
  ELSE IF i > Len(q) THEN 1
  ELSE IF i > Len(p) THEN -1
  ELSE IF p[i] = q[i] THEN comparePreFrom(p, q, i + 1)
  ELSE compareIdentifiers(p[i], q[i])

comparePre(a, b) ==
  IF Len(a.prerelease) > 0 /\ Len(b.prerelease) = 0 THEN -1
  ELSE IF Len(a.prerelease) = 0 /\ Len(b.prerelease) > 0 THEN 1
  ELSE IF Len(a.prerelease) = 0 /\ Len(b.prerelease) = 0 THEN 0
  ELSE comparePreFrom(a.prerelease, b.prerelease, 1)

\* semver.compare on two valid versions
semver_compare(a, b) ==
  IF compareMain(a, b) # 0 THEN compareMain(a, b) ELSE comparePre(a, b)

\* semver.gte; a version semver cannot parse is not comparable
semver_gte(a, b) ==
  /\ semver_parse(a) # Null
  /\ semver_parse(b) # Null
  /\ semver_compare(a, b) >= 0

\* SemVer.inc('pre', identifier) with the default identifier base 0
incPre(pre, identifier) ==
  LET nums == {i \in 1..Len(pre) : pre[i].isNum}
      bumped ==
        IF Len(pre) = 0 THEN <<Num(0)>>
        ELSE IF nums = {} THEN Append(pre, Num(0))
        ELSE [pre EXCEPT ![SetMax(nums)] = Num(pre[SetMax(nums)].n + 1)]
  IN IF identifier = Undefined THEN bumped
     ELSE IF compareIdentifiers(bumped[1], Str(identifier)) = 0
       THEN (IF Len(bumped) < 2 \/ ~bumped[2].isNum
               THEN <<Str(identifier), Num(0)>>
               ELSE bumped)
       ELSE <<Str(identifier), Num(0)>>

\* semver.inc(version, release, identifier): null when the version does not
\* parse or the release type is no increment
semver_inc(version, release, identifier) ==
  IF semver_parse(version) = Null THEN Null
  ELSE LET v == semver_parse(version)
           stable == Len(v.prerelease) = 0
       IN CASE release = "premajor" ->
                 SemVer(v.major + 1, 0, 0, incPre(<<>>, identifier))
            [] release = "preminor" ->
                 SemVer(v.major, v.minor + 1, 0, incPre(<<>>, identifier))
            [] release = "prepatch" ->
                 SemVer(v.major, v.minor, v.patch + 1, incPre(<<>>, identifier))
            [] release = "prerelease" ->
                 IF stable
                   THEN SemVer(v.major, v.minor, v.patch + 1, incPre(<<>>, identifier))
                   ELSE SemVer(v.major, v.minor, v.patch, incPre(v.prerelease, identifier))
            [] release = "major" ->
                 SemVer(IF v.minor # 0 \/ v.patch # 0 \/ stable
                          THEN v.major + 1 ELSE v.major, 0, 0, <<>>)
            [] release = "minor" ->
                 SemVer(v.major,
                        IF v.patch # 0 \/ stable THEN v.minor + 1 ELSE v.minor,
                        0, <<>>)
            [] release = "patch" ->
                 SemVer(v.major, v.minor,
                        IF stable THEN v.patch + 1 ELSE v.patch, <<>>)
            [] OTHER -> Null

(***************************************************************************)
(* Pure helpers of try-bump.ts.                                             *)
(***************************************************************************)
\* a test that takes no version for the initial one
_isInitialVersion_never(lastVersion) == FALSE

_isInitialVersion(lastVersion) == lastVersion = initialVersion

\* _isNewVersion without its null test
_isNewVersion_keepsNull(version) == version.version # initialVersion

_isNewVersion(version) ==
  version.version # Null /\ version.version # initialVersion

\* the value _manualBump emits
_manualBump(since, releaseType, preid) == semver_inc(since, releaseType, preid)

\* _semverBump rewriting to the 'pre' form whatever `since` is
_semverBump_alwaysPre(since, recommended, releaseType, preid) ==
  LET recommendedReleaseType ==
        IF recommended # Undefined /\ releaseType = "prerelease"
          THEN "pre" \o recommended
          ELSE recommended
  IN IF recommendedReleaseType # Undefined
       THEN semver_inc(since, recommendedReleaseType, preid)
       ELSE Null

\* the value _semverBump resolves to once the recommendation `recommended`
\* (a release type or Undefined) has arrived
_semverBump(since, recommended, releaseType, preid) ==
  LET recommendedReleaseType ==
        IF recommended # Undefined /\ releaseType = "prerelease"
          THEN (IF semver_parse(since) # Null
                     /\ Len(semver_parse(since).prerelease) = 0
                  THEN "pre" \o recommended
                  ELSE releaseType)
          ELSE recommended
  IN IF recommendedReleaseType # Undefined
       THEN semver_inc(since, recommendedReleaseType, preid)
       ELSE Null

\* conventional-commits-parser: the optional `type` of a raw commit message,
\* the word before ": " in its header, absent (null, which no string equals)
\* when the header has no such word
parseType(commit) ==
  CASE commit = "feat: add" -> Some("feat")
    [] commit = "fix: repair" -> Some("fix")
    [] commit = "chore: tidy" -> Some("chore")
    [] commit = "docs: note" -> Some("docs")
    [] commit = "null: literal" -> Some("null")
    [] OTHER -> <<>>

\* a classifier that also skips every commit without a type
shouldCommitBeCalculated_skipsUntyped(commit, skipCommitTypes) ==
  LET type == parseType(commit)
      shouldSkip ==
        \/ type = <<>>
        \/ \E i \in 1..Len(skipCommitTypes) : Some(skipCommitTypes[i]) = type
  IN ~shouldSkip

shouldCommitBeCalculated(commit, skipCommitTypes) ==
  LET type == parseType(commit)
      shouldSkip ==
        \E i \in 1..Len(skipCommitTypes) : Some(skipCommitTypes[i]) = type
  IN ~shouldSkip

(***************************************************************************)
(* Collaborators outside try-bump.ts: tag formatting and the values the     *)
(* version-control and recommendation queries can answer with.              *)
(***************************************************************************)
\* formatTag({tagPrefix, version}): the tag name of a version
formatTag(tagPrefix, version) ==
  [kind |-> "tag", tagPrefix |-> tagPrefix, version |-> version]

\* formatTagPrefix({versionTagPrefix, projectName, syncVersions})
formatTagPrefix(versionTagPrefix, projectName, syncVersions) ==
  IF versionTagPrefix # Undefined THEN versionTagPrefix
  ELSE IF syncVersions THEN "v"
  ELSE projectName \o "-"

\* the ref getFirstCommitRef() answers with
FirstCommitRef == [kind |-> "commit", tagPrefix |-> "", version |-> Null]
NoRef == [kind |-> "none", tagPrefix |-> "", version |-> Null]

\* versions getLastVersion can find for the primary project
PrimaryTags ==
  { SemVer(1, 2, 3, <<>>),
    SemVer(1, 0, 0, <<Str("beta"), Num(1)>>),
    SemVer(1, 0, 0, <<Str("beta"), Str("x")>>),
    Malformed }

\* versions getLastVersion can find for a dependency
DependencyTags == { SemVer(2, 0, 0, <<>>) }

\* commit windows getCommits can answer with
CommitWindows == { <<>>, <<"chore: tidy">>, <<"feat: add">> }

\* release types conventionalRecommendedBump can recommend
Recommendations == { Undefined, "major", "minor", "patch" }

\* the answers it gives for a dependency root: none, or a minor release
DependencyRecommendations == {Undefined, "minor"}

ReleaseIdentifiers ==
  { "major", "minor", "patch", "premajor", "preminor", "prepatch", "prerelease" }

\* prerelease identifiers a caller passes to tryBump
Preids == { Undefined, "beta" }

\* inputs of a stand-alone _semverBump call
Prereleases ==
  { <<>>, <<Num(0)>>, <<Str("alpha")>>, <<Str("alpha"), Num(1)>>,
    <<Str("beta"), Num(1)>>, <<Str("beta"), Str("x")>> }
BumpVersions ==
  { SemVer(M, m, p, pre) : M \in 0..MaxNum, m \in 0..MaxNum, p \in 0..MaxNum,
                           pre \in Prereleases } \cup { Malformed }
BumpPreids == { Undefined, "alpha", "beta" }

DependencyPool ==
  << [path |-> "libs/a", name |-> "a"],
     [path |-> "libs/b", name |-> "b"],
     [path |-> "libs/c", name |-> "c"],
     [path |-> "libs/d", name |-> "d"] >>

(***************************************************************************)
(* State.                                                                   *)
(***************************************************************************)
VARIABLES
  args,                \* the arguments of the tryBump call
  status,              \* "idle", "window", "bump", "completed" or "errored"
  pending,             \* collaborator calls issued and not yet answered
  issued,              \* bag of every collaborator call issued so far
  warned,              \* owners whose getLastVersion failure was logged
  failures,            \* collaborator calls that were answered with a failure
  lastVersion,         \* owner -> optional value of its lastVersion$
  lastVersionGitRef,   \* optional value of the primary lastVersionGitRef$
  commitsGitRef,       \* owner -> optional value its lastVersionGitRef$ gave commits$
  commits,             \* owner -> optional value of its commits$
  recommended,         \* owner -> optional answer of conventionalRecommendedBump
  projectVersion,      \* optional value of projectBump$ (its version)
  dependencyVersions,  \* dependency -> optional Version it resolved to
  emitted,             \* the values tryBump's observable has emitted
  error,               \* optional error tryBump's observable ended with
  bump,                \* a stand-alone call of _semverBump, or NoBump
  classified,          \* a stand-alone call of shouldCommitBeCalculated
  synchronous,         \* history: getLastVersion answered the primary while subscribing
  recording,           \* whether this run keeps the history `settled`
  settled              \* history: the dependencies in the order they resolved

vars ==
  << args, status, pending, issued, warned, failures, lastVersion,
     lastVersionGitRef, commitsGitRef, commits, recommended, projectVersion,
     dependencyVersions, emitted, error, bump, classified, synchronous,
     recording, settled >>

\* owner 0 is the primary project, owner i the i-th dependency root
NumDeps == Len(args.dependencyRoots)
Deps == 1..NumDeps
Owners == 0..NumDeps

tagPrefixOf(o) ==
  IF o = 0 THEN args.tagPrefix
  ELSE formatTagPrefix(args.versionTagPrefix, args.dependencyRoots[o].name,
                       args.syncVersions)

projectRootOf(o) ==
  IF o = 0 THEN args.projectRoot ELSE args.dependencyRoots[o].path

Call(fn, o, via, since) ==
  [fn |-> fn, owner |-> o, via |-> via, tagPrefix |-> tagPrefixOf(o),
   projectRoot |-> projectRootOf(o), since |-> since]

\* getLastVersion({tagPrefix, preid, releaseType})
LastVersionCall(o) == Call("getLastVersion", o, "lastVersion$", NoRef)
\* getFirstCommitRef(), subscribed by the lastVersionGitRef$ that `via` reads
FirstCommitCall(o, via) == Call("getFirstCommitRef", o, via, NoRef)
\* getCommits({projectRoot, since})
CommitsCall(o, since) == Call("getCommits", o, "commits$", since)
\* conventionalRecommendedBump({path, tagPrefix, ...})
RecommendCall(o) == Call("conventionalRecommendedBump", o, "_semverBump", NoRef)

Err(c) == [kind |-> "error", fn |-> c.fn, owner |-> c.owner]

NoBump ==
  [since |-> Null, releaseType |-> Undefined, preid |-> Undefined,
   recommended |-> <<>>, value |-> <<>>]

NoCall == [commit |-> "", skipCommitTypes |-> <<>>, value |-> <<>>]

Idle ==
  /\ status = "idle"
  /\ pending = {}
  /\ issued = EmptyBag
  /\ warned = {}
  /\ failures = {}
  /\ lastVersion = [o \in Owners |-> <<>>]
  /\ lastVersionGitRef = <<>>
  /\ commitsGitRef = [o \in Owners |-> <<>>]
  /\ commits = [o \in Owners |-> <<>>]
  /\ recommended = [o \in Owners |-> <<>>]
  /\ projectVersion = <<>>
  /\ dependencyVersions = [i \in Deps |-> <<>>]
  /\ emitted = <<>>
  /\ error = <<>>
  /\ settled = <<>>
  /\ synchronous = FALSE

Init ==
  /\ args \in
       [ projectRoot : {"apps/app"},
         projectName : {"app"},
         tagPrefix : {"app-"},
         dependencyRoots : {SubSeq(DependencyPool, 1, n) : n \in 0..MaxDeps},
         releaseType : ReleaseIdentifiers \cup {Undefined},
         preid : Preids,
         versionTagPrefix : {Undefined},
         syncVersions : {FALSE},
         allowEmptyRelease : BOOLEAN,
         skipCommitTypes : {<<"chore">>} ]
  /\ Idle
  /\ bump = NoBump
  /\ classified = NoCall
  /\ recording = FALSE

(***************************************************************************)
(* Decisions of tryBump and _getDependencyVersions, as values.              *)
(***************************************************************************)
filterCommits(cs) ==
  SelectSeq(cs, LAMBDA commit : shouldCommitBeCalculated(commit, args.skipCommitTypes))

\* a manual bump that reports the last version as the new one
manualResult_keepsVersion(lv) ==
  IF semver_inc(lv, args.releaseType, args.preid) = Null THEN Null
  ELSE [version |-> lv, previousVersion |-> lv, dependencyUpdates |-> <<>>]

\* the manual-override branch not handing preid on
manualResult_dropsPreid(lv) ==
  LET version == _manualBump(lv, args.releaseType, Undefined)
  IN IF version # Null
       THEN [version |-> version, previousVersion |-> lv, dependencyUpdates |-> <<>>]
       ELSE Null

\* the manual-override branch of tryBump: what it emits for lastVersion `lv`
manualResult(lv) ==
  LET version == _manualBump(lv, args.releaseType, args.preid)
  IN IF version # Null
       THEN [version |-> version, previousVersion |-> lv, dependencyUpdates |-> <<>>]
       ELSE Null

\* the inner switchMap suppressing an empty release only when no version
\* was computed
bumpResult_keepsCandidate(lv, cs, pv, dvs) ==
  LET dependencyUpdates == SelectSeq(dvs, _isNewVersion)
      newVersion ==
        [version |-> IF pv # Null THEN pv ELSE lv,
         previousVersion |-> lv,
         dependencyUpdates |-> dependencyUpdates]
      version == _manualBump(lv, "patch", args.preid)
      filteredCommits == filterCommits(cs)
  IN IF pv = Null /\ Len(dependencyUpdates) # 0
       THEN (IF version # Null
               THEN [newVersion EXCEPT !.version = version]
               ELSE Null)
     ELSE IF pv = Null /\ Len(dependencyUpdates) = 0 /\ Len(filteredCommits) = 0
               /\ ~args.allowEmptyRelease
       THEN Null
     ELSE newVersion

\* the inner switchMap without the forced patch
bumpResult_noForcedPatch(lv, cs, pv, dvs) ==
  LET dependencyUpdates == SelectSeq(dvs, _isNewVersion)
      newVersion ==
        [version |-> IF pv # Null THEN pv ELSE lv,
         previousVersion |-> lv,
         dependencyUpdates |-> dependencyUpdates]
      filteredCommits == filterCommits(cs)
  IN IF Len(dependencyUpdates) = 0 /\ Len(filteredCommits) = 0
          /\ ~args.allowEmptyRelease
       THEN Null
       ELSE newVersion

\* the inner switchMap suppressing a release whenever no primary commit
\* qualifies
bumpResult_commitsOnly(lv, cs, pv, dvs) ==
  LET dependencyUpdates == SelectSeq(dvs, _isNewVersion)
      newVersion ==
        [version |-> IF pv # Null THEN pv ELSE lv,
         previousVersion |-> lv,
         dependencyUpdates |-> dependencyUpdates]
      version == _manualBump(lv, "patch", args.preid)
      filteredCommits == filterCommits(cs)
  IN IF pv = Null /\ Len(dependencyUpdates) # 0
       THEN (IF version # Null
               THEN [newVersion EXCEPT !.version = version]
               ELSE Null)
     ELSE IF Len(filteredCommits) = 0
       THEN Null
     ELSE newVersion

\* the project function of the inner switchMap of tryBump: what it emits for
\* lastVersion `lv`, primary commits `cs`, project version `pv` (a version or
\* null) and the dependency versions `dvs`
bumpResult(lv, cs, pv, dvs) ==
  LET dependencyUpdates == SelectSeq(dvs, _isNewVersion)
      newVersion ==
        [version |-> IF pv # Null THEN pv ELSE lv,
         previousVersion |-> lv,
         dependencyUpdates |-> dependencyUpdates]
      version == _manualBump(lv, "patch", args.preid)
      filteredCommits == filterCommits(cs)
  IN IF pv = Null /\ Len(dependencyUpdates) # 0
       THEN (IF version # Null
               THEN [newVersion EXCEPT !.version = version]
               ELSE Null)
     ELSE IF Len(dependencyUpdates) = 0 /\ Len(filteredCommits) = 0
               /\ ~args.allowEmptyRelease
       THEN Null
     ELSE newVersion

\* a Version named after the place its dependency took among the resolved ones
Version_byArrival(i, version) ==
  [type |-> "dependency", version |-> version,
   dependencyName |-> args.dependencyRoots[Len(settled) + 1].name]

Version(i, version) ==
  [type |-> "dependency", version |-> version,
   dependencyName |-> args.dependencyRoots[i].name]

\* tryBump's observable emits `result` once and completes
Emit(result) ==
  /\ emitted' = Append(emitted, result)
  /\ status' = "completed"

\* a dependency aggregation without defaultIfEmpty([]): with no roots it
\* completes empty, and so does the join, without emitting
JoinBump_noDefault(pv, dvs) ==
  IF NumDeps = 0
    THEN /\ status' = "completed"
         /\ UNCHANGED emitted
  ELSE IF pv # <<>> /\ \A i \in Deps : dvs[i] # <<>>
    THEN Emit(bumpResult(lastVersion[0][1], commits[0][1], pv[1],
                         [i \in Deps |-> dvs[i][1]]))
    ELSE UNCHANGED <<emitted, status>>

\* a join handing the dependency versions over in the order they resolved
JoinBump_arrivalOrder(pv, dvs) ==
  IF pv # <<>> /\ \A i \in Deps : dvs[i] # <<>>
    THEN LET last == { i \in Deps : \A k \in 1..Len(settled) : settled[k] # i }
             arrival == IF last = {} THEN settled
                        ELSE Append(settled, CHOOSE i \in last : TRUE)
         IN Emit(bumpResult(lastVersion[0][1], commits[0][1], pv[1],
                            [k \in Deps |-> dvs[arrival[k]][1]]))
    ELSE UNCHANGED <<emitted, status>>

\* forkJoin([projectBump$, dependencyVersions$]): emits when the project
\* version `pv` and every dependency version of `dvs` have arrived
JoinBump(pv, dvs) ==
  IF pv # <<>> /\ \A i \in Deps : dvs[i] # <<>>
    THEN Emit(bumpResult(lastVersion[0][1], commits[0][1], pv[1],
                         [i \in Deps |-> dvs[i][1]]))
    ELSE UNCHANGED <<emitted, status>>

\* forkJoin([lastVersion$, commits$, lastVersionGitRef$]) of tryBump: emits when
\* commits `cs` and range reference `ref` have arrived (lastVersion$ always has
\* by then) and runs the outer switchMap; `rest` are the calls still pending
JoinWindow(cs, ref, rest) ==
  IF cs = <<>> \/ ref = <<>>
    THEN /\ pending' = rest
         /\ UNCHANGED <<issued, emitted, status>>
  ELSE IF args.releaseType # Undefined /\ args.releaseType # "prerelease"
    THEN /\ Emit(manualResult(lastVersion[0][1]))
         /\ pending' = rest
         /\ UNCHANGED issued
  ELSE LET calls == {RecommendCall(0)} \cup {LastVersionCall(i) : i \in Deps}
       IN /\ pending' = rest \cup calls
          /\ issued' = issued (+) SetToBag(calls)
          /\ status' = "bump"
          /\ UNCHANGED emitted

\* the inner observable of dependency i has emitted its Version and completed
Settle(i) == settled' = IF recording THEN Append(settled, i) ELSE settled

\* a blanket catchError turning a collaborator failure into "no release"
Fail_swallows(c) ==
  /\ Emit(Null)
  /\ pending' = {}
  /\ UNCHANGED << args, bump, classified, commitsGitRef, synchronous, recording, settled, issued, warned, lastVersion, lastVersionGitRef,
                  commits, recommended, projectVersion, dependencyVersions,
                  error >>

\* an unhandled collaborator failure: the error reaches tryBump's subscriber
\* and every other subscription is torn down
Fail(c) ==
  /\ status' = "errored"
  /\ error' = Some(Err(c))
  /\ pending' = {}
  /\ UNCHANGED << args, bump, classified, commitsGitRef, synchronous, recording, settled, issued, warned, lastVersion, lastVersionGitRef, commits,
                  recommended, projectVersion, dependencyVersions, emitted >>

Running == status \in {"window", "bump"}

(***************************************************************************)
(* Actions.                                                                 *)
(***************************************************************************)
\* a lastVersion$ without shareReplay: each of its three readers queries
Subscribe_unshared ==
  /\ status = "idle"
  /\ status' = "window"
  /\ pending' = {LastVersionCall(0)}
  /\ issued' = (issued (+) SetToBag({LastVersionCall(0)}))
                  (+) SetToBag({LastVersionCall(0)})
                  (+) SetToBag({LastVersionCall(0)})
  /\ UNCHANGED << args, bump, classified, commitsGitRef, synchronous, recording, settled, failures, warned, lastVersion, lastVersionGitRef, commits,
                  recommended, projectVersion, dependencyVersions, emitted, error >>

\* tryBump is called and its observable subscribed: forkJoin subscribes
\* lastVersion$, commits$ and lastVersionGitRef$, which share one getLastVersion
Subscribe ==
  /\ status = "idle"
  /\ status' = "window"
  /\ pending' = {LastVersionCall(0)}
  /\ issued' = issued (+) SetToBag({LastVersionCall(0)})
  /\ UNCHANGED << args, bump, classified, commitsGitRef, synchronous, recording, settled, failures, warned, lastVersion, lastVersionGitRef, commits,
                  recommended, projectVersion, dependencyVersions, emitted, error >>

\* a getProjectVersion that ignores `since`: a tagged dependency fetches the
\* commits since its own last tag
OnLastVersion_ownWindow(c, v) ==
  LET o == c.owner
      ref == formatTag(c.tagPrefix, v)
      readers == IF o = 0 THEN {"commits$", "lastVersionGitRef$"} ELSE {"commits$"}
      calls ==
        IF _isInitialVersion(v)
          THEN {FirstCommitCall(o, via) : via \in readers}
          ELSE {CommitsCall(o, ref)}
  IN /\ lastVersion' = [lastVersion EXCEPT ![o] = Some(v)]
     /\ lastVersionGitRef' =
          IF o = 0 /\ ~_isInitialVersion(v) THEN Some(ref) ELSE lastVersionGitRef
     /\ commitsGitRef' =
          IF ~_isInitialVersion(v) THEN [commitsGitRef EXCEPT ![o] = Some(ref)]
          ELSE commitsGitRef
     /\ pending' = (pending \ {c}) \cup calls
     /\ issued' = issued (+) SetToBag(calls)
     /\ UNCHANGED << args, bump, classified, synchronous, recording, settled, status, commits, recommended, projectVersion,
                     dependencyVersions, emitted, error >>

\* lastVersion$ of owner c.owner emits v: every lastVersionGitRef$ reading it
\* either asks for the first commit or has its tag at once, and commits$ then
\* fetches the commits
OnLastVersion(c, v) ==
  LET o == c.owner
      ref == formatTag(c.tagPrefix, v)
      readers == IF o = 0 THEN {"commits$", "lastVersionGitRef$"} ELSE {"commits$"}
      calls ==
        IF _isInitialVersion(v)
          THEN {FirstCommitCall(o, via) : via \in readers}
          ELSE {CommitsCall(o, IF o = 0 THEN ref ELSE lastVersionGitRef[1])}
  IN /\ lastVersion' = [lastVersion EXCEPT ![o] = Some(v)]
     /\ lastVersionGitRef' =
          IF o = 0 /\ ~_isInitialVersion(v) THEN Some(ref) ELSE lastVersionGitRef
     /\ commitsGitRef' =
          IF ~_isInitialVersion(v) THEN [commitsGitRef EXCEPT ![o] = Some(ref)]
          ELSE commitsGitRef
     /\ pending' = (pending \ {c}) \cup calls
     /\ issued' = issued (+) SetToBag(calls)
     /\ UNCHANGED << args, bump, classified, synchronous, recording, settled, status, commits, recommended, projectVersion,
                     dependencyVersions, emitted, error >>

\* getLastVersion answers with the last tagged version
LastVersionFound ==
  \E c \in pending :
    /\ Running
    /\ c.fn = "getLastVersion"
    /\ \E v \in (IF c.owner = 0 THEN PrimaryTags ELSE DependencyTags) :
         OnLastVersion(c, v)
    /\ UNCHANGED <<warned, failures>>

\* getLastVersion fails and no catchError recovers it
LastVersionMissing_rethrows ==
  \E c \in pending :
    /\ Running
    /\ c.fn = "getLastVersion"
    /\ failures' = failures \cup {c}
    /\ Fail(c)

\* getLastVersion fails: catchError logs the warning and falls back to 0.0.0
LastVersionMissing ==
  \E c \in pending :
    /\ Running
    /\ c.fn = "getLastVersion"
    /\ OnLastVersion(c, initialVersion)
    /\ warned' = warned \cup {c.owner}
    /\ failures' = failures \cup {c}

\* getFirstCommitRef answers
FirstCommitRefAnswer ==
  \E c \in pending :
    /\ Running
    /\ c.fn = "getFirstCommitRef"
    /\ IF c.via = "lastVersionGitRef$"
         THEN /\ lastVersionGitRef' = Some(FirstCommitRef)
              /\ JoinWindow(commits[0], lastVersionGitRef', pending \ {c})
              /\ UNCHANGED commitsGitRef
         ELSE LET call == CommitsCall(c.owner,
                            IF c.owner = 0 THEN FirstCommitRef
                            ELSE lastVersionGitRef[1])
              IN /\ commitsGitRef' =
                      [commitsGitRef EXCEPT ![c.owner] = Some(FirstCommitRef)]
                 /\ pending' = (pending \ {c}) \cup {call}
                 /\ issued' = issued (+) SetToBag({call})
                 /\ UNCHANGED <<lastVersionGitRef, emitted, status>>
    /\ UNCHANGED << args, bump, classified, synchronous, recording, settled, failures, warned, lastVersion, commits, recommended,
                    projectVersion, dependencyVersions, error >>

\* getCommits answers for the primary project
PrimaryCommitsAnswer ==
  \E c \in pending, cs \in CommitWindows :
    /\ Running
    /\ c.fn = "getCommits"
    /\ c.owner = 0
    /\ commits' = [commits EXCEPT ![0] = Some(cs)]
    /\ JoinWindow(commits'[0], lastVersionGitRef, pending \ {c})
    /\ UNCHANGED << args, bump, classified, commitsGitRef, synchronous, recording, settled, failures, warned, lastVersion, lastVersionGitRef, recommended,
                    projectVersion, dependencyVersions, error >>

\* the switchMap of _getDependencyVersions testing the fetched commits
\* instead of the filtered ones
DependencyCommitsAnswer_unfiltered ==
  \E c \in pending, cs \in CommitWindows :
    /\ Running
    /\ c.fn = "getCommits"
    /\ c.owner # 0
    /\ commits' = [commits EXCEPT ![c.owner] = Some(cs)]
    /\ LET i == c.owner
           dependencyLastVersion == lastVersion[i][1]
       IN IF Len(cs) = 0
            THEN /\ dependencyVersions' =
                      [dependencyVersions EXCEPT ![i] = Some(Version(i, Null))]
                 /\ pending' = pending \ {c}
                 /\ Settle(c.owner)
                 /\ JoinBump(projectVersion, dependencyVersions')
                 /\ UNCHANGED issued
          ELSE IF _isInitialVersion(dependencyLastVersion)
            THEN /\ pending' = (pending \ {c}) \cup {RecommendCall(i)}
                 /\ issued' = issued (+) SetToBag({RecommendCall(i)})
                 /\ UNCHANGED <<dependencyVersions, settled, emitted, status>>
          ELSE /\ dependencyVersions' =
                    [dependencyVersions EXCEPT
                       ![i] = Some(Version(i, dependencyLastVersion))]
               /\ pending' = pending \ {c}
               /\ Settle(c.owner)
               /\ JoinBump(projectVersion, dependencyVersions')
               /\ UNCHANGED issued
    /\ UNCHANGED << args, bump, classified, commitsGitRef, synchronous, recording, failures, warned, lastVersion, lastVersionGitRef, recommended,
                    projectVersion, error >>

\* getCommits answers for a dependency: the switchMap of _getDependencyVersions
DependencyCommitsAnswer ==
  \E c \in pending, cs \in CommitWindows :
    /\ Running
    /\ c.fn = "getCommits"
    /\ c.owner # 0
    /\ commits' = [commits EXCEPT ![c.owner] = Some(cs)]
    /\ LET i == c.owner
           dependencyLastVersion == lastVersion[i][1]
       IN IF Len(filterCommits(cs)) = 0
            THEN /\ dependencyVersions' =
                      [dependencyVersions EXCEPT ![i] = Some(Version(i, Null))]
                 /\ pending' = pending \ {c}
                 /\ Settle(c.owner)
                 /\ JoinBump(projectVersion, dependencyVersions')
                 /\ UNCHANGED issued
          ELSE IF _isInitialVersion(dependencyLastVersion)
            THEN /\ pending' = (pending \ {c}) \cup {RecommendCall(i)}
                 /\ issued' = issued (+) SetToBag({RecommendCall(i)})
                 /\ UNCHANGED <<dependencyVersions, settled, emitted, status>>
          ELSE /\ dependencyVersions' =
                    [dependencyVersions EXCEPT
                       ![i] = Some(Version(i, dependencyLastVersion))]
               /\ pending' = pending \ {c}
               /\ Settle(c.owner)
               /\ JoinBump(projectVersion, dependencyVersions')
               /\ UNCHANGED issued
    /\ UNCHANGED << args, bump, classified, commitsGitRef, synchronous, recording, failures, warned, lastVersion, lastVersionGitRef, recommended,
                    projectVersion, error >>

\* conventionalRecommendedBump answers inside the primary _semverBump
ProjectBumpAnswer ==
  \E c \in pending, r \in Recommendations :
    /\ Running
    /\ c.fn = "conventionalRecommendedBump"
    /\ c.owner = 0
    /\ recommended' = [recommended EXCEPT ![0] = Some(r)]
    /\ projectVersion' =
         Some(_semverBump(lastVersion[0][1], r, args.releaseType, args.preid))
    /\ pending' = pending \ {c}
    /\ JoinBump(projectVersion', dependencyVersions)
    /\ UNCHANGED << args, bump, classified, commitsGitRef, synchronous, recording, settled, failures, issued, warned, lastVersion, lastVersionGitRef,
                    commits, dependencyVersions, error >>

\* conventionalRecommendedBump answers inside a dependency's _semverBump
DependencyBumpAnswer ==
  \E c \in pending, r \in DependencyRecommendations :
    /\ Running
    /\ c.fn = "conventionalRecommendedBump"
    /\ c.owner # 0
    /\ recommended' = [recommended EXCEPT ![c.owner] = Some(r)]
    /\ dependencyVersions' =
         [dependencyVersions EXCEPT
            ![c.owner] = Some(Version(c.owner,
                           _semverBump(lastVersion[c.owner][1], r,
                                       Undefined, Undefined)))]
    /\ pending' = pending \ {c}
    /\ Settle(c.owner)
    /\ JoinBump(projectVersion, dependencyVersions')
    /\ UNCHANGED << args, bump, classified, commitsGitRef, synchronous, recording, failures, issued, warned, lastVersion, lastVersionGitRef,
                    commits, projectVersion, error >>

\* getFirstCommitRef, getCommits or conventionalRecommendedBump fails
CollaboratorFails ==
  \E c \in pending :
    /\ Running
    /\ c.fn # "getLastVersion"
    /\ failures' = failures \cup {c}
    /\ Fail(c)

Next ==
  \/ Subscribe
  \/ LastVersionFound
  \/ LastVersionMissing
  \/ FirstCommitRefAnswer
  \/ PrimaryCommitsAnswer
  \/ DependencyCommitsAnswer
  \/ ProjectBumpAnswer
  \/ DependencyBumpAnswer
  \/ CollaboratorFails

Spec == Init /\ [][Next]_vars

(***************************************************************************)
(* _semverBump on its own: subscribed with any since, releaseType and       *)
(* preid, it resolves when conventionalRecommendedBump has answered.        *)
(***************************************************************************)
InitBump ==
  /\ args = [ projectRoot |-> "apps/app", projectName |-> "app",
              tagPrefix |-> "app-", dependencyRoots |-> <<>>,
              releaseType |-> Undefined, preid |-> Undefined,
              versionTagPrefix |-> Undefined, syncVersions |-> FALSE,
              allowEmptyRelease |-> FALSE, skipCommitTypes |-> <<"chore">> ]
  /\ Idle
  /\ classified = NoCall
  /\ recording = FALSE
  /\ bump \in [ since : BumpVersions,
                releaseType : ReleaseIdentifiers \cup {Undefined},
                preid : BumpPreids,
                recommended : {<<>>},
                value : {<<>>} ]

SemverBumpResolves ==
  \E r \in Recommendations :
    /\ bump.recommended = <<>>
    /\ bump' = [bump EXCEPT
                  !.recommended = Some(r),
                  !.value = Some(_semverBump(bump.since, r, bump.releaseType,
                                             bump.preid))]
    /\ UNCHANGED << args, classified, commitsGitRef, synchronous, recording, settled, status, pending, issued, warned, failures,
                    lastVersion, lastVersionGitRef, commits, recommended,
                    projectVersion, dependencyVersions, emitted, error >>

NextBump == SemverBumpResolves

SpecBump == InitBump /\ [][NextBump]_vars

(***************************************************************************)
(* shouldCommitBeCalculated on its own: called with any commit message and  *)
(* any list of types to skip, it returns at once.                           *)
(***************************************************************************)
CommitMessages ==
  { "feat: add", "fix: repair", "chore: tidy", "docs: note", "null: literal",
    "Merge branch 'main'", "" }

CommitTypes == { "feat", "fix", "chore", "docs", "null" }

SkipLists ==
  UNION { [1..n -> CommitTypes] : n \in 0..MaxSkip }

InitCalculated ==
  /\ args = [ projectRoot |-> "apps/app", projectName |-> "app",
              tagPrefix |-> "app-", dependencyRoots |-> <<>>,
              releaseType |-> Undefined, preid |-> Undefined,
              versionTagPrefix |-> Undefined, syncVersions |-> FALSE,
              allowEmptyRelease |-> FALSE, skipCommitTypes |-> <<"chore">> ]
  /\ Idle
  /\ bump = NoBump
  /\ recording = FALSE
  /\ classified \in [ commit : CommitMessages,
                      skipCommitTypes : SkipLists,
                      value : {<<>>} ]

ShouldCommitBeCalculatedReturns ==
  /\ classified.value = <<>>
  /\ classified' =
       [classified EXCEPT
          !.value = Some(shouldCommitBeCalculated(classified.commit,
                                                  classified.skipCommitTypes))]
  /\ UNCHANGED << args, bump, commitsGitRef, synchronous, recording, settled, status, pending,
                  issued, warned, failures, lastVersion, lastVersionGitRef,
                  commits, recommended, projectVersion, dependencyVersions,
                  emitted, error >>

NextCalculated == ShouldCommitBeCalculatedReturns

SpecCalculated == InitCalculated /\ [][NextCalculated]_vars

(***************************************************************************)
(* tryBump on the automatic path with the history of the order in which the *)
(* dependencies resolved.                                                   *)
(***************************************************************************)
Called(releaseTypes) ==
  /\ args \in
       [ projectRoot : {"apps/app"},
         projectName : {"app"},
         tagPrefix : {"app-"},
         dependencyRoots : {SubSeq(DependencyPool, 1, n) : n \in 0..MaxDeps},
         releaseType : releaseTypes,
         preid : {Undefined},
         versionTagPrefix : {Undefined},
         syncVersions : {FALSE},
         allowEmptyRelease : BOOLEAN,
         skipCommitTypes : {<<"chore">>} ]
  /\ Idle
  /\ bump = NoBump
  /\ classified = NoCall

InitOrder ==
  /\ Called({Undefined})
  /\ recording = TRUE

SpecOrder == InitOrder /\ [][Next]_vars

(***************************************************************************)
(* tryBump with a getLastVersion that may answer the primary project while  *)
(* forkJoin is still subscribing its sources: lastVersion$ has its value    *)
(* before commits$ and lastVersionGitRef$ subscribe, and both read it from  *)
(* the replay buffer.                                                       *)
(***************************************************************************)
SubscribeAnswered(v) ==
  LET c == LastVersionCall(0)
      ref == formatTag(c.tagPrefix, v)
      calls ==
        IF _isInitialVersion(v)
          THEN {FirstCommitCall(0, via) : via \in {"commits$", "lastVersionGitRef$"}}
          ELSE {CommitsCall(0, ref)}
  IN /\ status = "idle"
     /\ status' = "window"
     /\ synchronous' = TRUE
     /\ lastVersion' = [lastVersion EXCEPT ![0] = Some(v)]
     /\ lastVersionGitRef' =
          IF ~_isInitialVersion(v) THEN Some(ref) ELSE lastVersionGitRef
     /\ commitsGitRef' =
          IF ~_isInitialVersion(v) THEN [commitsGitRef EXCEPT ![0] = Some(ref)]
          ELSE commitsGitRef
     /\ pending' = calls
     /\ issued' = (issued (+) SetToBag({c})) (+) SetToBag(calls)
     /\ UNCHANGED << args, bump, classified, recording, settled, commits,
                     recommended, projectVersion, dependencyVersions, emitted,
                     error >>

\* getLastVersion answers with the last tagged version during subscription
LastVersionFoundAtOnce ==
  \E v \in PrimaryTags :
    /\ SubscribeAnswered(v)
    /\ UNCHANGED <<warned, failures>>

\* getLastVersion fails during subscription: catchError falls back to 0.0.0
LastVersionMissingAtOnce ==
  /\ SubscribeAnswered(initialVersion)
  /\ warned' = warned \cup {0}
  /\ failures' = failures \cup {LastVersionCall(0)}

InitShared ==
  /\ Called({Undefined, "major"})
  /\ recording = FALSE

NextShared ==
  \/ Subscribe
  \/ LastVersionFoundAtOnce
  \/ LastVersionMissingAtOnce
  \/ LastVersionFound
  \/ LastVersionMissing
  \/ FirstCommitRefAnswer
  \/ PrimaryCommitsAnswer
  \/ DependencyCommitsAnswer
  \/ ProjectBumpAnswer
  \/ DependencyBumpAnswer
  \/ CollaboratorFails

SpecShared == InitShared /\ [][NextShared]_vars

(***************************************************************************)
(* tryBump with collaborators that always answer: every call issued is      *)
(* eventually answered with a value, getLastVersion possibly with a         *)
(* failure, and tryBump is eventually called.  Each answer is a callback of *)
(* the event loop, which runs every callback that is ready.                 *)
(***************************************************************************)
NextLive ==
  \/ Subscribe
  \/ LastVersionFound
  \/ LastVersionMissing
  \/ FirstCommitRefAnswer
  \/ PrimaryCommitsAnswer
  \/ DependencyCommitsAnswer
  \/ ProjectBumpAnswer
  \/ DependencyBumpAnswer

Fairness ==
  /\ WF_vars(Subscribe)
  /\ WF_vars(LastVersionFound \/ LastVersionMissing)
  /\ WF_vars(FirstCommitRefAnswer)
  /\ WF_vars(PrimaryCommitsAnswer)
  /\ WF_vars(DependencyCommitsAnswer)
  /\ WF_vars(ProjectBumpAnswer)
  /\ WF_vars(DependencyBumpAnswer)

SpecLive == InitShared /\ [][NextLive]_vars /\ Fairness

(***************************************************************************)
(* Vocabulary of the properties.                                            *)
(***************************************************************************)
\* the caller dictates the release type (anything but 'prerelease')
Manual == args.releaseType # Undefined /\ args.releaseType # "prerelease"
Completed == status = "completed"
Result == emitted[1]
\* the version string "0.0.0"
Sentinel == SemVer(0, 0, 0, <<>>)
LastVersion == lastVersion[0][1]
Qualifies(commit) ==
  \A k \in 1..Len(args.skipCommitTypes) :
    parseType(commit) # Some(args.skipCommitTypes[k])
SomeCommitQualifies(cs) == \E k \in 1..Len(cs) : Qualifies(cs[k])
IsRealUpdate(d) == d.version # Null /\ d.version # Sentinel
\* the dependency versions the aggregator delivered, in the order of the roots
Aggregated == [i \in Deps |-> dependencyVersions[i][1]]
RealUpdates == SelectSeq(Aggregated, IsRealUpdate)
\* tryBump completed on the automatic path
CompletedAuto == Completed /\ ~Manual

(***************************************************************************)
(* C1.  Manual override: with a caller-supplied releaseType other than      *)
(* 'prerelease' and a valid increment, the one value tryBump emits, as soon *)
(* as the primary window is resolved, is {version: inc(lastVersion,         *)
(* releaseType, preid), previousVersion: lastVersion, dependencyUpdates:    *)
(* []}, whatever the commits, the dependency roots and allowEmptyRelease.   *)
(***************************************************************************)
C1_ManualOverride ==
  ( /\ Manual
    /\ commits[0] # <<>>
    /\ lastVersionGitRef # <<>>
    /\ semver_inc(LastVersion, args.releaseType, args.preid) # Null )
  => /\ Completed
     /\ emitted =
          << [version |-> semver_inc(LastVersion, args.releaseType, args.preid),
              previousVersion |-> LastVersion,
              dependencyUpdates |-> <<>>] >>

\* Scenario D with commits, dependency roots and a preid present
C1_Witness ==
  /\ Completed
  /\ args.releaseType = "major"
  /\ NumDeps = 2
  /\ args.preid = "beta"
  /\ commits[0] = << <<"feat: add">> >>
  /\ LastVersion = SemVer(1, 2, 3, <<>>)
  /\ Result.version = SemVer(2, 0, 0, <<>>)
  /\ Result.dependencyUpdates = <<>>

(***************************************************************************)
(* C2.  Empty-release suppression: on the automatic path, when no commit of *)
(* the primary window qualifies, no dependency update is real and           *)
(* allowEmptyRelease is false, tryBump emits None, also when a category was *)
(* recommended and a candidate version computed.                            *)
(***************************************************************************)
C2_EmptyReleaseSuppressed ==
  ( /\ CompletedAuto
    /\ ~SomeCommitQualifies(commits[0][1])
    /\ \A i \in Deps : ~IsRealUpdate(Aggregated[i])
    /\ ~args.allowEmptyRelease )
  => emitted = <<Null>>

\* a candidate version was computed and is dropped
C2_Witness ==
  /\ CompletedAuto
  /\ commits[0] = << <<"chore: tidy">> >>
  /\ recommended[0] = <<"minor">>
  /\ projectVersion = << SemVer(1, 3, 0, <<>>) >>
  /\ NumDeps = 1
  /\ ~args.allowEmptyRelease
  /\ emitted = <<Null>>

(***************************************************************************)
(* C3.  Forced patch: on the automatic path, when some dependency update is *)
(* real and the primary bump is null, the result's version is               *)
(* inc(previousVersion, 'patch') and its dependencyUpdates the real         *)
(* updates, whether or not a primary commit qualifies or allowEmptyRelease  *)
(* is set; there is no result version only where that increment is null.    *)
(***************************************************************************)
C3_ForcedPatch ==
  ( /\ CompletedAuto
    /\ RealUpdates # <<>>
    /\ projectVersion = <<Null>> )
  => IF semver_inc(LastVersion, "patch", Undefined) = Null
       THEN emitted = <<Null>>
       ELSE emitted =
              << [version |-> semver_inc(LastVersion, "patch", Undefined),
                  previousVersion |-> LastVersion,
                  dependencyUpdates |-> RealUpdates] >>

\* Scenario C, with no qualifying primary commit and allowEmptyRelease false
C3_Witness ==
  /\ CompletedAuto
  /\ LastVersion = SemVer(1, 2, 3, <<>>)
  /\ projectVersion = <<Null>>
  /\ ~SomeCommitQualifies(commits[0][1])
  /\ ~args.allowEmptyRelease
  /\ Len(RealUpdates) = 1
  /\ Result # Null
  /\ Result.version = SemVer(1, 2, 4, <<>>)

(***************************************************************************)
(* C4.  In every result that is not None, dependencyUpdates holds no entry  *)
(* whose version is null or "0.0.0", and holds every dependency version of  *)
(* the aggregator whose version is neither.                                 *)
(***************************************************************************)
C4_OnlyRealUpdates ==
  (Completed /\ Result # Null)
  => /\ \A k \in 1..Len(Result.dependencyUpdates) :
          /\ Result.dependencyUpdates[k].version # Null
          /\ Result.dependencyUpdates[k].version # Sentinel
     /\ ~Manual =>
          \A i \in Deps :
            IsRealUpdate(Aggregated[i]) =>
              \E k \in 1..Len(Result.dependencyUpdates) :
                Result.dependencyUpdates[k] = Aggregated[i]

\* one dependency resolved to null and is left out, the other is kept
C4_Witness ==
  /\ CompletedAuto
  /\ NumDeps = 2
  /\ Result # Null
  /\ Aggregated[1].version = Null
  /\ Aggregated[2].version = SemVer(2, 0, 0, <<>>)
  /\ Result.dependencyUpdates = << Aggregated[2] >>

(***************************************************************************)
(* C5.  Invalid increment yields None: whenever semver.inc returns null for *)
(* a bump step of the primary project (manual override, automatic bump with *)
(* a recommended category, forced patch), tryBump emits None.               *)
(***************************************************************************)
C5_InvalidIncrementYieldsNone ==
  Completed =>
    /\ ( /\ Manual
         /\ semver_inc(LastVersion, args.releaseType, args.preid) = Null )
       => emitted = <<Null>>
    /\ ( /\ ~Manual
         /\ recommended[0][1] # Undefined
         /\ projectVersion = <<Null>> )
       => emitted = <<Null>>
    /\ ( /\ ~Manual
         /\ projectVersion = <<Null>>
         /\ RealUpdates # <<>>
         /\ semver_inc(LastVersion, "patch", Undefined) = Null )
       => emitted = <<Null>>

(***************************************************************************)
(* C6.  _semverBump(since, releaseType, preid) resolves to null when no     *)
(* category is recommended, and otherwise to inc(since, effective, preid):  *)
(* effective is the recommended category c when releaseType is not          *)
(* 'prerelease', 'pre'+c when it is and since has no prerelease component,  *)
(* and 'prerelease' when it is and since has one.                           *)
(***************************************************************************)
HasPrerelease(v) == v.kind = "semver" /\ Len(v.prerelease) > 0
PreOf(c) ==
  CASE c = "major" -> "premajor"
    [] c = "minor" -> "preminor"
    [] c = "patch" -> "prepatch"
EffectiveReleaseType(since, c, releaseType) ==
  IF releaseType # "prerelease" THEN c
  ELSE IF HasPrerelease(since) THEN "prerelease"
  ELSE PreOf(c)

C6_SemverBumpReference ==
  bump.value # <<>> =>
    bump.value[1] =
      IF bump.recommended[1] = Undefined
        THEN Null
        ELSE semver_inc(bump.since,
                        EffectiveReleaseType(bump.since, bump.recommended[1],
                                             bump.releaseType),
                        bump.preid)

\* Scenario E
C6_Witness ==
  /\ bump.since = SemVer(1, 0, 0, <<>>)
  /\ bump.releaseType = "prerelease"
  /\ bump.preid = "beta"
  /\ bump.recommended = <<"minor">>
  /\ bump.value = << SemVer(1, 1, 0, <<Str("beta"), Num(0)>>) >>

(***************************************************************************)
(* C7.  Automatic path result: when the primary automatic bump yields a     *)
(* version v and a primary commit qualifies, or a dependency update is      *)
(* real, or allowEmptyRelease is set, tryBump emits {version: v,            *)
(* previousVersion: lastVersion, dependencyUpdates: the real updates}.      *)
(***************************************************************************)
C7_AutomaticResult ==
  ( /\ CompletedAuto
    /\ projectVersion # <<Null>>
    /\ \/ SomeCommitQualifies(commits[0][1])
       \/ RealUpdates # <<>>
       \/ args.allowEmptyRelease )
  => emitted =
       << [version |-> projectVersion[1],
           previousVersion |-> LastVersion,
           dependencyUpdates |-> RealUpdates] >>

\* Scenario A
C7_Witness ==
  /\ CompletedAuto
  /\ LastVersion = Sentinel
  /\ commits[0] = << <<"feat: add">> >>
  /\ recommended[0] = <<"minor">>
  /\ args.releaseType = Undefined
  /\ Result.version = SemVer(0, 1, 0, <<>>)
  /\ Result.previousVersion = Sentinel

(***************************************************************************)
(* C8.  Never a downgrade: in every result that is not None, version is     *)
(* greater than or equal to previousVersion under semver precedence, also   *)
(* when previousVersion carries a prerelease component.                     *)
(***************************************************************************)
C8_NeverDowngrade ==
  ( /\ Completed
    /\ Result # Null
    /\ semver_parse(Result.version) # Null
    /\ semver_parse(Result.previousVersion) # Null )
  => semver_compare(Result.version, Result.previousVersion) >= 0

(***************************************************************************)
(* C9.  No-tag fallback: when getLastVersion fails for the primary project  *)
(* tryBump does not fail; lastVersion is "0.0.0", the range reference and   *)
(* the start of the commit fetch are the first commit ref, and a result     *)
(* that is not None has previousVersion "0.0.0".  When the lookup succeeds  *)
(* previousVersion is the version it returned.                              *)
(***************************************************************************)
PrimaryLookupFailed ==
  \E c \in failures : c.fn = "getLastVersion" /\ c.owner = 0

C9_NoTagFallback ==
  /\ PrimaryLookupFailed =>
       /\ lastVersion[0] = <<Sentinel>>
       /\ lastVersionGitRef \in {<<>>, <<FirstCommitRef>>}
       /\ \A c \in BagToSet(issued) :
            (c.fn = "getCommits" /\ c.owner = 0) => c.since = FirstCommitRef
       /\ error # <<>> => error[1].fn # "getLastVersion"
       /\ (Completed /\ Result # Null) => Result.previousVersion = Sentinel
  /\ (~PrimaryLookupFailed /\ Completed /\ Result # Null) =>
       /\ Result.previousVersion \in PrimaryTags
       /\ Result.previousVersion = LastVersion

\* the lookup failed and tryBump went on to a first release
C9_Witness ==
  /\ PrimaryLookupFailed
  /\ 0 \in warned
  /\ Completed
  /\ lastVersionGitRef = <<FirstCommitRef>>
  /\ Result # Null
  /\ Result.previousVersion = Sentinel
  /\ Result.version = SemVer(1, 0, 0, <<>>)

(***************************************************************************)
(* C10.  Unhandled collaborator failures propagate: when getCommits,        *)
(* getFirstCommitRef or conventionalRecommendedBump fails, for the primary  *)
(* project or a dependency, tryBump ends with that error and has emitted    *)
(* nothing; a failure of getLastVersion alone never ends it with an error.  *)
(***************************************************************************)
C10_FailuresPropagate ==
  /\ \A c \in failures :
       c.fn # "getLastVersion" =>
         /\ status = "errored"
         /\ error = << Err(c) >>
         /\ emitted = <<>>
  /\ (\A c \in failures : c.fn = "getLastVersion") =>
       /\ status # "errored"
       /\ error = <<>>

\* a dependency's recommendation call fails after its tag lookup was recovered
C10_Witness ==
  /\ status = "errored"
  /\ NumDeps = 2
  /\ 2 \in warned
  /\ error = << [kind |-> "error", fn |-> "conventionalRecommendedBump",
                 owner |-> 2] >>
  /\ dependencyVersions[1] # <<>>
  /\ emitted = <<>>

(***************************************************************************)
(* C11.  Per-dependency decision of _getDependencyVersions: the version a   *)
(* dependency root resolves to is null when no commit of its window         *)
(* qualifies; the automatic bump from "0.0.0", asked for the dependency's   *)
(* own project root and tag prefix, when some commit qualifies and its last *)
(* version is "0.0.0"; and its last version verbatim, with no bump          *)
(* computed, when some commit qualifies and it has a prior tag.             *)
(***************************************************************************)
BumpAsked(i) ==
  \E c \in BagToSet(issued) :
    c.fn = "conventionalRecommendedBump" /\ c.owner = i

C11_DependencyDecision ==
  \A i \in Deps :
    dependencyVersions[i] # <<>> =>
      LET entry == dependencyVersions[i][1]
          last == lastVersion[i][1]
      IN /\ entry.dependencyName = args.dependencyRoots[i].name
         /\ IF ~SomeCommitQualifies(commits[i][1])
              THEN /\ entry.version = Null
                   /\ ~BumpAsked(i)
            ELSE IF last = Sentinel
              THEN /\ entry.version =
                        IF recommended[i][1] = Undefined
                          THEN Null
                          ELSE semver_inc(Sentinel, recommended[i][1], Undefined)
                   /\ BumpAsked(i)
                   /\ \A c \in BagToSet(issued) :
                        (c.fn = "conventionalRecommendedBump" /\ c.owner = i) =>
                          /\ c.projectRoot = args.dependencyRoots[i].path
                          /\ c.tagPrefix = args.dependencyRoots[i].name \o "-"
            ELSE /\ entry.version = last
                 /\ ~BumpAsked(i)

\* all three decisions in one run, the fresh bump under a 'prerelease' request
C11_Witness ==
  /\ NumDeps = 2
  /\ args.releaseType = "prerelease"
  /\ args.preid = "beta"
  /\ commits[0] = << <<"chore: tidy">> >>
  /\ commits[1] = << <<"feat: add">> >>
  /\ lastVersion[1] = << Sentinel >>
  /\ recommended[1] = << "minor" >>
  /\ dependencyVersions[1] # <<>>
  /\ dependencyVersions[1][1].version = SemVer(0, 1, 0, <<>>)
  /\ commits[2] = << <<"feat: add">> >>
  /\ dependencyVersions[2] # <<>>
  /\ dependencyVersions[2][1].version = SemVer(2, 0, 0, <<>>)

(***************************************************************************)
(* C12.  Whatever the order in which the dependencies resolve, the          *)
(* aggregated sequence holds exactly one entry per dependency root, the     *)
(* entry of the i-th root at position i (and is empty for no roots), and    *)
(* the dependencyUpdates of the result are its real updates in that order.  *)
(***************************************************************************)
RootIndex(name) ==
  CHOOSE i \in Deps : args.dependencyRoots[i].name = name

C12_InputOrder ==
  /\ \A i \in Deps :
       dependencyVersions[i] # <<>> =>
         dependencyVersions[i][1].dependencyName = args.dependencyRoots[i].name
  /\ CompletedAuto =>
       /\ \A i \in Deps : dependencyVersions[i] # <<>>
       /\ Len(settled) = NumDeps
       /\ \A i \in Deps : \E k \in 1..Len(settled) : settled[k] = i
       /\ Result # Null =>
            /\ Result.dependencyUpdates = RealUpdates
            /\ NumDeps = 0 => Result.dependencyUpdates = <<>>
            /\ \A j, k \in 1..Len(Result.dependencyUpdates) :
                 j < k =>
                   RootIndex(Result.dependencyUpdates[j].dependencyName)
                     < RootIndex(Result.dependencyUpdates[k].dependencyName)

\* the second root resolved before the first and both are real updates
C12_Witness ==
  /\ CompletedAuto
  /\ settled = <<2, 1>>
  /\ Result # Null
  /\ Len(Result.dependencyUpdates) = 2
  /\ Result.dependencyUpdates[1].dependencyName = "a"
  /\ Result.dependencyUpdates[1].version = SemVer(0, 1, 0, <<>>)
  /\ Result.dependencyUpdates[2].dependencyName = "b"
  /\ Result.dependencyUpdates[2].version = SemVer(2, 0, 0, <<>>)

(***************************************************************************)
(* C13.  shouldCommitBeCalculated(commit, skipCommitTypes) returns false    *)
(* exactly when the type parsed from the commit is an entry of              *)
(* skipCommitTypes and true otherwise, in particular for a commit without   *)
(* a type and for an empty skipCommitTypes; the call changes nothing but    *)
(* its own return value.                                                    *)
(***************************************************************************)
Untyped(commit) ==
  commit \notin { "feat: add", "fix: repair", "chore: tidy", "docs: note",
                  "null: literal" }

TypeWord(commit) ==
  CASE commit = "feat: add" -> "feat"
    [] commit = "fix: repair" -> "fix"
    [] commit = "chore: tidy" -> "chore"
    [] commit = "docs: note" -> "docs"
    [] commit = "null: literal" -> "null"

Skipped(commit, skipTypes) ==
  /\ ~Untyped(commit)
  /\ \E k \in 1..Len(skipTypes) : skipTypes[k] = TypeWord(commit)

C13_Classified ==
  classified.value # <<>> =>
    /\ classified.value[1] = ~Skipped(classified.commit, classified.skipCommitTypes)
    /\ Untyped(classified.commit) => classified.value[1] = TRUE
    /\ classified.skipCommitTypes = <<>> => classified.value[1] = TRUE

C13_Frame ==
  ShouldCommitBeCalculatedReturns =>
    /\ classified'.commit = classified.commit
    /\ classified'.skipCommitTypes = classified.skipCommitTypes
    /\ UNCHANGED << args, bump, commitsGitRef, synchronous, recording, settled, status, pending,
                    issued, warned, failures, lastVersion, lastVersionGitRef, commits,
                    recommended, projectVersion, dependencyVersions, emitted,
                    error >>

C13_CommitClassifier == []C13_Classified /\ [][C13_Frame]_vars

\* a commit without a type is kept although the literal type "null" is skipped
C13_Witness ==
  /\ classified.commit = "Merge branch 'main'"
  /\ classified.skipCommitTypes = <<"null", "chore">>
  /\ classified.value = <<TRUE>>

(***************************************************************************)
(* C14.  Within one tryBump invocation getLastVersion is asked exactly once *)
(* for the primary project, although the join, the range reference and the  *)
(* commit fetch all read the last version, and whether it answers while     *)
(* subscribing or later; when it fails, each of the three readers sees      *)
(* "0.0.0" and the query is not repeated.                                   *)
(***************************************************************************)
PrimaryLastVersionCalls ==
  { c \in BagToSet(issued) : c.fn = "getLastVersion" /\ c.owner = 0 }

\* what the range reference and the commit fetch did with the last version
ReadAsInitial ==
  /\ CopiesIn(FirstCommitCall(0, "lastVersionGitRef$"), issued) = 1
  /\ CopiesIn(FirstCommitCall(0, "commits$"), issued) = 1
  /\ lastVersionGitRef \in { <<>>, <<FirstCommitRef>> }
  /\ \A c \in BagToSet(issued) :
       (c.fn = "getCommits" /\ c.owner = 0) => c.since = FirstCommitRef

C14_LastVersionShared ==
  /\ status = "idle" => PrimaryLastVersionCalls = {}
  /\ status # "idle" =>
       /\ PrimaryLastVersionCalls = {LastVersionCall(0)}
       /\ CopiesIn(LastVersionCall(0), issued) = 1
  /\ LastVersionCall(0) \in failures =>
       /\ lastVersion[0] = <<Sentinel>>
       /\ ReadAsInitial

\* the query failed while subscribing and the run went on to its result
C14_Witness ==
  /\ synchronous
  /\ LastVersionCall(0) \in failures
  /\ CopiesIn(LastVersionCall(0), issued) = 1
  /\ Completed
  /\ NumDeps = 2

(***************************************************************************)
(* C15.  Within one tryBump invocation no version-control query behind the  *)
(* primary project's window is issued twice: getFirstCommitRef is asked at  *)
(* most once and getCommits at most once for the primary project, although  *)
(* the range reference is read both by the join and by the commit fetch.    *)
(***************************************************************************)
PrimaryCalls(fn) ==
  { c \in BagToSet(issued) : c.fn = fn /\ c.owner = 0 }

\* how many times fn was asked for the primary project, all readers together
TimesAsked(fn) ==
  LET calls == PrimaryCalls(fn)
      RECURSIVE sum(_)
      sum(S) == IF S = {} THEN 0
                ELSE LET c == CHOOSE x \in S : TRUE
                     IN CopiesIn(c, issued) + sum(S \ {c})
  IN sum(calls)

C15_WindowComputedOnce ==
  /\ TimesAsked("getFirstCommitRef") <= 1
  /\ TimesAsked("getCommits") <= 1

(***************************************************************************)
(* C16.  For every dependency root, getCommits is asked with the            *)
(* dependency's project root and with since = the range reference resolved  *)
(* for the primary project, never the dependency's own last tag or the      *)
(* first commit it looked up, while getLastVersion is asked with the        *)
(* dependency's own tag prefix.                                             *)
(***************************************************************************)
C16_DependencyAnchor ==
  \A c \in BagToSet(issued) :
    c.owner # 0 =>
      LET root == args.dependencyRoots[c.owner]
      IN /\ c.fn = "getCommits" =>
              /\ CopiesIn(c, issued) = 1
              /\ lastVersionGitRef # <<>>
              /\ c = [fn |-> "getCommits", owner |-> c.owner, via |-> "commits$",
                      tagPrefix |-> root.name \o "-", projectRoot |-> root.path,
                      since |-> lastVersionGitRef[1]]
              /\ lastVersion[c.owner] # <<>>
              /\ c.since # formatTag(root.name \o "-", lastVersion[c.owner][1])
              /\ lastVersion[0] # <<Sentinel>> => c.since # FirstCommitRef
         /\ c.fn = "getLastVersion" =>
              /\ c.tagPrefix = root.name \o "-"
              /\ c.tagPrefix # args.tagPrefix

\* a tagged and an untagged dependency both fetch since the primary's tag
C16_Witness ==
  /\ NumDeps = 2
  /\ lastVersion[0] = << SemVer(1, 2, 3, <<>>) >>
  /\ lastVersion[1] = << SemVer(2, 0, 0, <<>>) >>
  /\ lastVersion[2] = << Sentinel >>
  /\ CopiesIn(FirstCommitCall(2, "commits$"), issued) = 1
  /\ CommitsCall(1, formatTag("app-", SemVer(1, 2, 3, <<>>))) \in BagToSet(issued)
  /\ CommitsCall(2, formatTag("app-", SemVer(1, 2, 3, <<>>))) \in BagToSet(issued)
  /\ commits[1] # <<>>
  /\ commits[2] # <<>>

(***************************************************************************)
(* C17.  The range reference of getProjectVersion is the first commit ref   *)
(* when the resolved last version is "0.0.0" and formatTag(tagPrefix,       *)
(* lastVersion) otherwise, whether or not `since` was passed (as it is for  *)
(* the dependencies and is not for the primary project); a passed `since`   *)
(* takes its place only as the argument of getCommits.                      *)
(***************************************************************************)
ExpectedRef(o) ==
  IF lastVersion[o][1] = Sentinel
    THEN FirstCommitRef
    ELSE [kind |-> "tag",
          tagPrefix |-> IF o = 0 THEN "app-" ELSE args.dependencyRoots[o].name \o "-",
          version |-> lastVersion[o][1]]

CommitFetches(o) ==
  { c \in BagToSet(issued) : c.fn = "getCommits" /\ c.owner = o }

C17_RangeReference ==
  /\ lastVersionGitRef # <<>> => lastVersionGitRef[1] = ExpectedRef(0)
  /\ \A o \in Owners :
       commitsGitRef[o] # <<>> => commitsGitRef[o][1] = ExpectedRef(o)
  /\ \A c \in BagToSet(issued) :
       c.fn = "getCommits" =>
         /\ commitsGitRef[c.owner] # <<>>
         /\ c.since = IF c.owner = 0 THEN commitsGitRef[0][1]
                      ELSE lastVersionGitRef[1]

\* both kinds of reference with `since` passed, and neither is what was fetched
C17_Witness ==
  /\ NumDeps = 2
  /\ lastVersionGitRef = << FirstCommitRef >>
  /\ commitsGitRef[0] = << FirstCommitRef >>
  /\ commitsGitRef[1] = << formatTag("a-", SemVer(2, 0, 0, <<>>)) >>
  /\ lastVersion[2] = << Sentinel >>
  /\ commitsGitRef[2] = << FirstCommitRef >>
  /\ CommitFetches(1) = { CommitsCall(1, FirstCommitRef) }
  /\ CommitFetches(2) = { CommitsCall(2, FirstCommitRef) }

(***************************************************************************)
(* C18.  When every collaborator call is eventually answered (with a value, *)
(* getLastVersion possibly with a failure), then for every interleaving of  *)
(* the answers and every number of dependency roots, zero included, tryBump *)
(* eventually emits one result and completes: it never emits twice, never   *)
(* completes without a result and never stays waiting.                      *)
(***************************************************************************)
C18_OneResult ==
  /\ Len(emitted) <= 1
  /\ Completed <=> Len(emitted) = 1
  /\ status # "errored"
  /\ Completed => pending = {}

C18_JoinLiveness == []C18_OneResult /\ <>[](Completed /\ Len(emitted) = 1)

\* no dependency roots: the aggregation joins to the empty sequence
C18_Witness ==
  /\ NumDeps = 0
  /\ ~Manual
  /\ Completed
  /\ emitted # <<Null>>
  /\ Result.dependencyUpdates = <<>>
  /\ pending = {}

(***************************************************************************)
(* C19.  Determinism: the result of an automatic tryBump run is a function  *)
(* of its arguments and of the answers of the collaborators (last versions, *)
(* commit windows, recommendations) alone, so two runs that agree on them   *)
(* emit the same result whatever the order in which the primary bump and    *)
(* the dependencies resolved.                                               *)
(***************************************************************************)
AnsweredVersion(i) ==
  IF ~SomeCommitQualifies(commits[i][1]) THEN Null
  ELSE IF lastVersion[i][1] # Sentinel THEN lastVersion[i][1]
  ELSE IF recommended[i][1] = Undefined THEN Null
  ELSE semver_inc(Sentinel, recommended[i][1], Undefined)

AnsweredUpdates ==
  SelectSeq([i \in Deps |->
               [type |-> "dependency", version |-> AnsweredVersion(i),
                dependencyName |-> args.dependencyRoots[i].name]],
            IsRealUpdate)

AnsweredBump ==
  IF recommended[0][1] = Undefined THEN Null
  ELSE semver_inc(LastVersion,
                  EffectiveReleaseType(LastVersion, recommended[0][1],
                                       args.releaseType),
                  args.preid)

Outcome ==
  LET version ==
        IF AnsweredBump # Null THEN AnsweredBump
        ELSE IF AnsweredUpdates # <<>>
          THEN semver_inc(LastVersion, "patch", Undefined)
        ELSE LastVersion
  IN IF version = Null THEN Null
     ELSE IF /\ AnsweredUpdates = <<>>
             /\ ~SomeCommitQualifies(commits[0][1])
             /\ ~args.allowEmptyRelease
       THEN Null
     ELSE [version |-> version, previousVersion |-> LastVersion,
           dependencyUpdates |-> AnsweredUpdates]

C19_Deterministic ==
  CompletedAuto => emitted = << Outcome >>

\* a forced patch decided although the second dependency resolved first
C19_Witness ==
  /\ CompletedAuto
  /\ settled = <<2, 1>>
  /\ LastVersion = SemVer(1, 2, 3, <<>>)
  /\ recommended[0] = << Undefined >>
  /\ commits[1] = << <<"chore: tidy">> >>
  /\ emitted = << [version |-> SemVer(1, 2, 4, <<>>),
                   previousVersion |-> SemVer(1, 2, 3, <<>>),
                   dependencyUpdates |->
                     << [type |-> "dependency", dependencyName |-> "b",
                         version |-> SemVer(2, 0, 0, <<>>)] >>] >>

(***************************************************************************)
(* C20.  Unchanged-version results: provided no increment made in the run   *)
(* returned the version it was given, a result that is not None has version *)
(* = previousVersion exactly when it comes from the automatic path with a   *)
(* null primary bump, no real dependency update, and allowEmptyRelease set  *)
(* or a qualifying primary commit; after a manual override or a forced      *)
(* patch the version differs from previousVersion.                          *)
(***************************************************************************)
IncrementMoves ==
  /\ Manual => semver_inc(LastVersion, args.releaseType, args.preid) # LastVersion
  /\ ~Manual =>
       /\ projectVersion # << LastVersion >>
       /\ semver_inc(LastVersion, "patch", Undefined) # LastVersion

ForcedPatch == ~Manual /\ projectVersion = <<Null>> /\ RealUpdates # <<>>

Unchanged == Result.version = Result.previousVersion

C20_UnchangedVersion ==
  (Completed /\ Result # Null /\ IncrementMoves) =>
    /\ Unchanged <=>
         /\ ~Manual
         /\ projectVersion = <<Null>>
         /\ RealUpdates = <<>>
         /\ args.allowEmptyRelease \/ SomeCommitQualifies(commits[0][1])
    /\ Manual => ~Unchanged
    /\ ForcedPatch => ~Unchanged

\* an empty release allowed: nothing recommended, nothing committed, the one
\* dependency unchanged
C20_Witness ==
  /\ CompletedAuto
  /\ IncrementMoves
  /\ args.allowEmptyRelease
  /\ NumDeps = 1
  /\ LastVersion = SemVer(1, 2, 3, <<>>)
  /\ commits[0] = << <<>> >>
  /\ recommended[0] = << Undefined >>
  /\ Aggregated[1].version = Null
  /\ emitted = << [version |-> SemVer(1, 2, 3, <<>>),
                   previousVersion |-> SemVer(1, 2, 3, <<>>),
                   dependencyUpdates |-> <<>>] >>

====
